---- MODULE Spec2Model ----
(***************************************************************************)
(* The two PDF text-extraction scripts, extract_profile.py and             *)
(* extract_pdf.py, as one state machine.  A run is one execution of one    *)
(* script against one environment: which libraries can be imported, where  *)
(* (if anywhere) each library raises, whether the file exists, and what    *)
(* page.extract_text() returns for every page.                             *)
(*                                                                         *)
(* A text is a sequence of tokens.  A token is an ordinary character       *)
(* ("a"), a newline ("\n"), the word "None" (what an f-string makes of     *)
(* None), or a whole marker "=== PAGE n ===".                              *)
(***************************************************************************)
EXTENDS Integers, Sequences, FiniteSets, TLC

VARIABLES script, exists, avail, raisesAt, pages,
          pc, li, i, text, sections, stdout,
          attempts, outcome, imported, opened, asked

env == <<script, exists, avail, raisesAt, pages>>
vars == <<script, exists, avail, raisesAt, pages,
          pc, li, i, text, sections, stdout,
          attempts, outcome, imported, opened, asked>>

\* ---------------------------------------------------------------- bounds

\* Longest document of the runs explored.
MaxPages == 2

\* Longest page text of the round-trip runs.
MaxLen == 2

\* ------------------------------------------------------------- constants

Scripts == {"extract_profile", "extract_pdf"}

Libs == {"pypdf", "PyPDF2", "pdfplumber"}

\* extract_profile.py line 14.
libraries_to_try == <<"pypdf", "PyPDF2", "pdfplumber">>

\* extract_pdf.py: pdfplumber in the outer try, PyPDF2 in the try nested in
\* the ImportError handler.
pdf_chain == <<"pdfplumber", "PyPDF2">>

\* Faulty variant: the order depends on what the first page holds.
ChainByContent(s) ==
    IF s = "extract_profile"
    THEN IF pages # <<>> /\ pages[1] = <<>>
         THEN <<"pdfplumber", "PyPDF2", "pypdf">>
         ELSE libraries_to_try
    ELSE pdf_chain

\* The order in which a script tries the libraries.
Chain(s) == IF s = "extract_profile" THEN libraries_to_try ELSE pdf_chain

\* Position of a library in a script's order (0: the script never uses it).
Pos(s, lib) ==
    IF \E k \in 1..Len(Chain(s)) : Chain(s)[k] = lib
    THEN CHOOSE k \in 1..Len(Chain(s)) : Chain(s)[k] = lib
    ELSE 0

\* ----------------------------------------------------------------- texts

NL == "\n"

\* What extract_text() returns for a page without text in the libraries
\* that return no string for it.
None == <<"NoneType">>

\* Faulty variant: pages numbered from 0.
PageNoZeroBased(idx) == idx

\* The number printed for the page at 0-based position idx: {i+1}.
PageNo(idx) == idx + 1

\* f"=== PAGE {n} ==="
Marker(n) == "=== PAGE " \o ToString(n) \o " ==="

\* Python truth of a page text: None and "" are false.
Truthy(t) == t # None /\ t # <<>>

\* f"{page_text}": str() of the value.
Str(t) == IF t = None THEN <<"None">> ELSE t

\* One section: marker line, the page's text, a blank-line separator.
Section(n, t) == <<Marker(n), NL>> \o Str(t) \o <<NL, NL>>

\* Whether the branch tests `if page_text:` / `if text:` before appending.
SkipsEmpty(s, lib) ==
    IF s = "extract_profile" THEN lib = "pdfplumber" ELSE TRUE

\* Whether the page's section is appended to the accumulated text.
Emits(s, lib, t) == SkipsEmpty(s, lib) => Truthy(t)

\* text += ...  for page n.
Accumulate(s, lib, acc, n, t) ==
    IF Emits(s, lib, t) THEN acc \o Section(n, t) ELSE acc

\* --------------------------------------------------------- control flow

\* Faulty variant: an ImportError ends the run.
OnImportErrorStop(s, lib) == "done"

\* Where an ImportError of `lib` leads.
OnImportError(s, lib) ==
    IF s = "extract_profile" THEN "loop"
    ELSE IF lib = "pdfplumber" THEN "loop" ELSE "done"

\* Where any other exception raised by `lib` leads.
OnException(s, lib) ==
    IF s = "extract_profile" THEN "loop"
    ELSE IF lib = "pdfplumber" THEN "done" ELSE "crashed"

\* Where control goes once the text has been printed.
AfterPrint(s) == IF s = "extract_profile" THEN "finish" ELSE "done"

Line(kind, lib, t) == [kind |-> kind, lib |-> lib, text |-> t]

\* What the ImportError handler prints.
ImportErrorLine(s, lib) ==
    IF s = "extract_profile" THEN Line("not available", lib, <<>>)
    ELSE IF lib = "pdfplumber" THEN Line("Error importing pdfplumber", lib, <<>>)
    ELSE Line("Neither pdfplumber nor PyPDF2 available", "", <<>>)

\* What the `except Exception` handler prints; nothing when no handler
\* catches the exception.
ExceptionLines(s, lib) ==
    IF s = "extract_profile" THEN <<Line("Error with", lib, <<>>)>>
    ELSE IF lib = "pdfplumber" THEN <<Line("Error reading PDF", "", <<>>)>>
    ELSE <<>>

\* The library whose attempt is running.
Cur == Chain(script)[li]

\* ------------------------------------------------------------ environment

NoRaise == MaxPages + 1

PageTexts == {None, <<>>, <<"a">>}

Docs == UNION {[1..n -> PageTexts] : n \in 0..MaxPages}

\* The environment of a run.  raisesAt[lib] = 0: opening the file raises;
\* k in 1..Len(pages): extract_text() of page k raises; NoRaise: nothing
\* raises.  A missing file makes every library raise on opening it.
EnvOK ==
    /\ exists => \A lib \in Libs :
          /\ ~avail[lib] => raisesAt[lib] = NoRaise
          /\ raisesAt[lib] <= Len(pages) \/ raisesAt[lib] = NoRaise
    /\ ~exists =>
          /\ pages = <<>>
          /\ \A lib \in Libs : raisesAt[lib] = IF avail[lib] THEN 0 ELSE NoRaise

Start0 ==
    /\ pc = "start"
    /\ li = 1
    /\ i = 0
    /\ text = <<>>
    /\ sections = <<>>
    /\ stdout = <<>>
    /\ attempts = <<>>
    /\ outcome = [lib \in Libs |-> "untried"]
    /\ imported = [lib \in Libs |-> 0]
    /\ opened = [lib \in Libs |-> 0]
    /\ asked = [lib \in Libs |-> 0]

Init ==
    /\ script \in Scripts
    /\ exists \in BOOLEAN
    /\ avail \in [Libs -> BOOLEAN]
    /\ raisesAt \in [Libs -> 0..NoRaise]
    /\ pages \in Docs
    /\ EnvOK
    /\ Start0

\* ---------------------------------------------------------------- actions

\* extract_profile.py lines 6-11: the existence check only prints.
\* extract_pdf.py lines 2-3: no output.
Start ==
    /\ pc = "start"
    /\ stdout' =
          IF script = "extract_profile"
          THEN stdout \o <<Line(IF exists THEN "File exists: True"
                                ELSE "File exists: False", "", <<>>)>>
                      \o (IF exists THEN <<Line("File size", "", <<>>)>> ELSE <<>>)
          ELSE stdout
    /\ pc' = "loop"
    /\ UNCHANGED <<env, li, i, text, sections, attempts, outcome,
                   imported, opened, asked>>

\* `for lib in libraries_to_try:` / entering the (nested) try.
LoopNext ==
    /\ pc = "loop"
    /\ IF li <= Len(Chain(script))
       THEN /\ pc' = "import"
            /\ attempts' = Append(attempts, Cur)
            /\ outcome' = [outcome EXCEPT ![Cur] = "running"]
       ELSE /\ pc' = "finish"
            /\ UNCHANGED <<attempts, outcome>>
    /\ UNCHANGED <<env, li, i, text, sections, stdout, imported, opened, asked>>

\* The import statement of the branch, and its ImportError handler.
Import ==
    /\ pc = "import"
    /\ imported' = [imported EXCEPT ![Cur] = @ + 1]
    /\ IF avail[Cur]
       THEN /\ pc' = "open"
            /\ UNCHANGED <<li, stdout, outcome>>
       ELSE /\ stdout' = Append(stdout, ImportErrorLine(script, Cur))
            /\ outcome' = [outcome EXCEPT ![Cur] = "unavailable"]
            /\ pc' = OnImportError(script, Cur)
            /\ li' = li + 1
    /\ UNCHANGED <<env, i, text, sections, attempts, opened, asked>>

\* PdfReader(path) / open(path, 'rb') / pdfplumber.open(path), then
\* `text = ""`.
Open ==
    /\ pc = "open"
    /\ opened' = [opened EXCEPT ![Cur] = @ + 1]
    /\ IF raisesAt[Cur] = 0
       THEN /\ stdout' = stdout \o ExceptionLines(script, Cur)
            /\ outcome' = [outcome EXCEPT ![Cur] = "error"]
            /\ pc' = OnException(script, Cur)
            /\ li' = li + 1
            /\ UNCHANGED <<i, text, sections>>
       ELSE /\ text' = <<>>
            /\ sections' = <<>>
            /\ i' = 0
            /\ pc' = "pages"
            /\ UNCHANGED <<li, stdout, outcome>>
    /\ UNCHANGED <<env, attempts, imported, asked>>

\* One iteration of `for i, page in enumerate(...pages):`.
ExtractPage ==
    /\ pc = "pages"
    /\ i < Len(pages)
    /\ asked' = [asked EXCEPT ![Cur] = @ + 1]
    /\ IF raisesAt[Cur] = i + 1
       THEN /\ stdout' = stdout \o ExceptionLines(script, Cur)
            /\ outcome' = [outcome EXCEPT ![Cur] = "error"]
            /\ pc' = OnException(script, Cur)
            /\ li' = li + 1
            /\ UNCHANGED <<i, text, sections>>
       ELSE /\ text' = Accumulate(script, Cur, text, PageNo(i), pages[i + 1])
            /\ sections' =
                  IF Emits(script, Cur, pages[i + 1])
                  THEN Append(sections, [n |-> PageNo(i), text |-> Str(pages[i + 1])])
                  ELSE sections
            /\ i' = i + 1
            /\ UNCHANGED <<pc, li, stdout, outcome>>
    /\ UNCHANGED <<env, attempts, imported, opened>>

\* The page loop ends: every page has been processed.
PagesDone ==
    /\ pc = "pages"
    /\ i = Len(pages)
    /\ outcome' = [outcome EXCEPT ![Cur] = "completed"]
    /\ pc' = "print"
    /\ UNCHANGED <<env, li, i, text, sections, stdout, attempts,
                   imported, opened, asked>>

\* Faulty variant: no `break` after the text is printed; the loop goes on.
PrintTextNoBreak ==
    /\ pc = "print"
    /\ stdout' =
          (IF script = "extract_profile"
           THEN Append(stdout, Line("SUCCESS with", Chain(script)[li], <<>>))
           ELSE stdout) \o <<Line("text", Chain(script)[li], text)>>
    /\ pc' = "loop"
    /\ li' = li + 1
    /\ UNCHANGED <<env, i, text, sections, attempts, outcome,
                   imported, opened, asked>>

\* print(f"SUCCESS with {lib}:"); print(text); break   (extract_profile.py)
\* print(full_text)                                    (extract_pdf.py)
PrintText ==
    /\ pc = "print"
    /\ stdout' =
          (IF script = "extract_profile"
           THEN Append(stdout, Line("SUCCESS with", Cur, <<>>))
           ELSE stdout) \o <<Line("text", Cur, text)>>
    /\ pc' = AfterPrint(script)
    /\ UNCHANGED <<env, li, i, text, sections, attempts, outcome,
                   imported, opened, asked>>

\* extract_profile.py line 57.
Finish ==
    /\ pc = "finish"
    /\ stdout' = Append(stdout, Line("Finished trying all libraries", "", <<>>))
    /\ pc' = "done"
    /\ UNCHANGED <<env, li, i, text, sections, attempts, outcome,
                   imported, opened, asked>>

Next ==
    \/ Start
    \/ LoopNext
    \/ Import
    \/ Open
    \/ ExtractPage
    \/ PagesDone
    \/ PrintText
    \/ Finish

Spec == Init /\ [][Next]_vars

\* ------------------------------------------------- round-trip environment

\* The alphabet of the page texts of the round-trip runs: a character, a
\* newline, and a marker.
RTAlphabet == {"a", NL, Marker(2)}

RTTexts == UNION {[1..n -> RTAlphabet] : n \in 0..MaxLen}

RTDocs == UNION {[1..n -> RTTexts] : n \in 0..MaxPages}

\* Runs in which the file is there and nothing raises, over every document
\* of RTDocs and every set of importable libraries.
InitRT ==
    /\ script \in Scripts
    /\ exists = TRUE
    /\ avail \in [Libs -> BOOLEAN]
    /\ raisesAt = [lib \in Libs |-> NoRaise]
    /\ pages \in RTDocs
    /\ Start0

SpecRT == InitRT /\ [][Next]_vars

\* Re-splitting an output on its marker lines.
IsMarker(tok) == \E n \in 0..(MaxPages + 1) : tok = Marker(n)

MarkerNo(tok) == CHOOSE n \in 0..(MaxPages + 1) : tok = Marker(n)

\* The positions of the marker lines of t: a marker that begins a line and
\* ends it.
MarkerLines(t) ==
    {p \in 1..(Len(t) - 1) :
        /\ IsMarker(t[p])
        /\ t[p + 1] = NL
        /\ (p = 1 \/ t[p - 1] = NL)}

\* A section's body without its blank-line separator.
StripSeparator(b) ==
    IF Len(b) >= 2 /\ b[Len(b) - 1] = NL /\ b[Len(b)] = NL
    THEN SubSeq(b, 1, Len(b) - 2)
    ELSE b

RECURSIVE SplitFrom(_, _)
SplitFrom(t, starts) ==
    IF starts = {} THEN <<>>
    ELSE LET p == CHOOSE x \in starts : \A y \in starts : x <= y
             rest == starts \ {p}
             q == IF rest = {} THEN Len(t) + 1
                  ELSE CHOOSE x \in rest : \A y \in rest : x <= y
         IN  <<[n |-> MarkerNo(t[p]),
                text |-> StripSeparator(SubSeq(t, p + 2, q - 1))]>>
             \o SplitFrom(t, rest)

Split(t) == SplitFrom(t, MarkerLines(t))

\* ------------------------------------------------------------ vocabulary

Ended == pc \in {"done", "crashed"}

Failed(lib) == outcome[lib] \in {"unavailable", "error"}

Completed(lib) == outcome[lib] = "completed"

Invoked(lib) == imported[lib] + opened[lib] + asked[lib] > 0

PrintedTexts == SelectSeq(stdout, LAMBDA l : l.kind = "text")

DeclaredOrder ==
    IF script = "extract_profile"
    THEN <<"pypdf", "PyPDF2", "pdfplumber">>
    ELSE <<"pdfplumber", "PyPDF2">>

Later(lib) ==
    {DeclaredOrder[k] : k \in {j \in 1..Len(DeclaredOrder) :
        \E m \in 1..(j - 1) : DeclaredOrder[m] = lib}}

EmptyPages == {n \in 1..Len(pages) : ~Truthy(pages[n])}

\* ---------------------------------------------------------------- claims

\* C1: first success wins.  Once a backend has been imported, has opened
\* the file and has gone through every page with a non-empty accumulated
\* text, no backend later in the priority order is imported, opened or
\* asked for a page, and when the run has ended that text is what was
\* printed, once.
C1_FirstSuccessWins ==
    \A lib \in Libs :
        (Completed(lib) /\ text # <<>>) =>
            /\ \A l2 \in Later(lib) : ~Invoked(l2) /\ outcome[l2] = "untried"
            /\ Ended => PrintedTexts = <<Line("text", lib, text)>>

\* C1 happens: a run has ended whose first backend succeeded with text
\* while a later backend was importable as well.
C1_Witness ==
    /\ pc = "done"
    /\ Completed(DeclaredOrder[1])
    /\ text # <<>>
    /\ avail[DeclaredOrder[2]]
    /\ raisesAt[DeclaredOrder[2]] = NoRaise

\* C7: the backends are attempted in the declared order whatever the pages
\* hold, each at most once, and a backend is attempted only when every
\* backend before it has been attempted and has failed.
C7_FixedPriorityOrder ==
    /\ Len(attempts) <= Len(DeclaredOrder)
    /\ \A k \in 1..Len(attempts) : attempts[k] = DeclaredOrder[k]
    /\ \A k \in 1..(Len(attempts) - 1) : Failed(attempts[k])
    /\ \A lib \in Libs :
          /\ imported[lib] <= 1
          /\ opened[lib] <= imported[lib]
          /\ asked[lib] <= Len(pages) * opened[lib]
          /\ Invoked(lib) => \E k \in 1..Len(attempts) : attempts[k] = lib

\* C7 happens: the last of three backends has been attempted, on a document
\* with text, after the two before it failed.
C7_Witness ==
    /\ pc = "done"
    /\ Len(attempts) = 3
    /\ Completed(attempts[3])
    /\ text # <<>>

\* The backends after position k, in order.
After(k) == (k + 1)..Len(DeclaredOrder)

\* C2 as stated: if a backend cannot be imported, the next backend is
\* tried, and the run's outcome is that backend's own outcome: its text if
\* it succeeds, a failure (nothing extracted) if it fails.
C2_NextOutcomeIsRunOutcome ==
    \A k \in 1..(Len(DeclaredOrder) - 1) :
        (Ended /\ outcome[DeclaredOrder[k]] = "unavailable") =>
            LET nxt == DeclaredOrder[k + 1] IN
            /\ imported[nxt] = 1
            /\ Completed(nxt) => PrintedTexts = <<Line("text", nxt, text)>>
            /\ Failed(nxt) => PrintedTexts = <<>>

\* C2, amended: if a backend cannot be imported, the next backend is tried,
\* and the run's outcome is that of the backends from the next one on: the
\* text of the first of them whose attempt runs through every page, after
\* each one before it was attempted and failed; nothing extracted when each
\* of them was attempted and failed.
C2_RestOfChainIsRunOutcome ==
    \A k \in 1..(Len(DeclaredOrder) - 1) :
        (Ended /\ outcome[DeclaredOrder[k]] = "unavailable") =>
            /\ imported[DeclaredOrder[k + 1]] = 1
            /\ \A j \in After(k) :
                  Completed(DeclaredOrder[j]) =>
                      /\ PrintedTexts = <<Line("text", DeclaredOrder[j], text)>>
                      /\ \A m \in (k + 1)..(j - 1) : Failed(DeclaredOrder[m])
            /\ (\A j \in After(k) : ~Completed(DeclaredOrder[j])) =>
                  /\ PrintedTexts = <<>>
                  /\ \A j \in After(k) : Failed(DeclaredOrder[j])

\* C2 happens: the first backend could not be imported, the second raised,
\* and the run ended with the third backend's text.
C2_Witness ==
    /\ pc = "done"
    /\ outcome[DeclaredOrder[1]] = "unavailable"
    /\ outcome[DeclaredOrder[2]] = "error"
    /\ Len(DeclaredOrder) = 3
    /\ Completed(DeclaredOrder[3])
    /\ text # <<>>

\* The page numbers of the sections of the result.
Indices == {sections[k].n : k \in 1..Len(sections)}

\* The pages a backend leaves out of its output: those without text, in
\* extract_pdf.py and in the pdfplumber branch of extract_profile.py.
LeftOut(lib) ==
    IF script = "extract_pdf" \/ lib = "pdfplumber" THEN EmptyPages ELSE {}

\* C10 as stated: in every successful (non-empty) result the page indices
\* are contiguous from 1 and as many as the document has pages.
C10_IndicesContiguous ==
    \A lib \in Libs :
        (Completed(lib) /\ text # <<>>) =>
            /\ Len(sections) = Len(pages)
            /\ \A k \in 1..Len(sections) : sections[k].n = k

\* C10, amended: in every successful result the page indices increase
\* strictly, each is the 1-based position of a page of the document, and
\* they are the positions of all pages but those the backend left out, so
\* that they are contiguous from 1 and as many as the pages exactly when no
\* page is left out.
C10_IndicesIncreasing ==
    \A lib \in Libs :
        Completed(lib) =>
            /\ \A k \in 1..Len(sections) : sections[k].n \in 1..Len(pages)
            /\ \A k \in 1..(Len(sections) - 1) : sections[k].n < sections[k + 1].n
            /\ Indices = (1..Len(pages)) \ LeftOut(lib)
            /\ Len(sections) = Len(pages) - Cardinality(LeftOut(lib))

\* C10 happens: a backend succeeded on a document whose first page has no
\* text and whose second has, and left the first out.
C10_Witness ==
    /\ Ended
    /\ \E lib \in Libs : Completed(lib) /\ LeftOut(lib) = {1}
    /\ Len(pages) = 2
    /\ Indices = {2}

\* C3: when an available backend raises on opening or reading the file,
\* the failure is printed and, if a backend remains, the next one is
\* attempted.
C3_OpenFailureFallsThrough ==
    \A k \in 1..(Len(DeclaredOrder) - 1) :
        (Ended /\ outcome[DeclaredOrder[k]] = "error") =>
            /\ \E n \in 1..Len(stdout) :
                  stdout[n].kind \in {"Error with", "Error reading PDF"}
            /\ outcome[DeclaredOrder[k + 1]] # "untried"

\* C4: a backend all of whose pages are without text does not succeed: no
\* text is printed for it and every backend after it is attempted.
C4_EmptyIsSoftFailure ==
    \A lib \in Libs :
        (Ended /\ Completed(lib) /\ pages # <<>>
               /\ EmptyPages = 1..Len(pages)) =>
            /\ PrintedTexts = <<>>
            /\ \A l2 \in Later(lib) : outcome[l2] # "untried"

\* C5: when the file does not exist no backend is imported, opened or
\* asked for pages.
C5_MissingFileInvokesNoBackend ==
    ~exists => \A lib \in Libs :
        /\ avail[lib] => imported[lib] = 0
        /\ opened[lib] = 0
        /\ asked[lib] = 0

\* C6: no exception escapes; the script never ends in a traceback.
C6_NeverCrashes == pc # "crashed"

\* C8: in a successful (non-empty) result the pages without text have no
\* section: the sections are those of the pages with text, under their
\* 1-based positions.
C8_EmptyPagesOmitted ==
    \A lib \in Libs :
        (Completed(lib) /\ text # <<>>) =>
            /\ Len(sections) = Len(pages) - Cardinality(EmptyPages)
            /\ Indices = (1..Len(pages)) \ EmptyPages

\* C9: re-splitting a successful output on its marker lines gives back the
\* page numbers and page texts it was built from.
C9_RoundTrip ==
    \A lib \in Libs : Completed(lib) => Split(text) = sections

====
